---- MODULE Spec2Model ----
(***************************************************************************)
(* Model of src/python/lib.py: a Person tree (native extension type) is    *)
(* wrapped in two pydantic models, dumped to plain data, packed with       *)
(* ormsgpack, unpacked and validated back into the models.                 *)
(*                                                                         *)
(* Python values are tagged records (field t is the Python type):          *)
(*   str  [t, s]   s  : sequence of UTF-8 bytes                            *)
(*   int  [t, i]                                                           *)
(*   bool [t, b]   None [t]                                                *)
(*   list [t, xs]  xs : sequence of values                                 *)
(*   dict [t, kv]  kv : sequence of <<key bytes, value>> in insertion order*)
(*   Person [t, name, age, children]                                       *)
(*   MySubModel [t, person]    MyModel [t, sub]                            *)
(* Exceptions are records too: [t |-> "ValidationError"] and so on.        *)
(***************************************************************************)
EXTENDS Integers, Sequences, FiniteSets, TLC

VARIABLES
    pc,             \* position of main(): the next line to run, or an exception name
    generated,      \* the tree as create_nested_person returned it (line 60), kept for reference
    nested_person,  \* lib.py:60
    my_model,       \* lib.py:68
    dump,           \* lib.py:70
    packed,         \* lib.py:78
    unpacked,       \* lib.py:81
    parsed,         \* lib.py:84
    g_depth,        \* generator run: the depth argument
    g_kids,         \* generator run: the max_children argument
    g_tree,         \* generator run: the tree returned
    v_in,           \* validation run: the value handed to the validator
    v_out,          \* validation run: the Person or model returned, or the exception
    stack,          \* Person.validate in steps: the mappings entered and not yet left
    constructed,    \* Person.validate in steps: the Persons constructed so far, by path
    fail_path       \* Person.validate in steps: the path of the node that was rejected

mainVars == <<generated, nested_person, my_model, dump, packed, unpacked, parsed>>
genVars == <<g_depth, g_kids, g_tree>>
valVars == <<v_in, v_out>>
stepVars == <<stack, constructed, fail_path>>

vars == <<pc, mainVars, genVars, valVars, stepVars>>

----------------------------------------------------------------------------
(* Bounds and program constants *)

\* create_nested_person(depth=3, max_children=2)
Depth == 3
MaxChildren == 2
\* nested_person.age = 10
NewAge == 10

\* number of generator seeds explored is MaxSeed + 1
MaxSeed == 1
\* the generator is also explored for every depth 0..GenMaxDepth and every
\* max_children 0..GenMaxKids
GenMaxDepth == 2
GenMaxKids == 3
\* depth of the trees whose plain-data images, intact and damaged, are handed
\* to the validators
ValMaxDepth == 2

----------------------------------------------------------------------------
(* Python values *)

PyStr(s) == [t |-> "str", s |-> s]
PyInt(i) == [t |-> "int", i |-> i]
PyBool(b) == [t |-> "bool", b |-> b]
PyNone == [t |-> "none"]
PyList(xs) == [t |-> "list", xs |-> xs]
PyDict(kv) == [t |-> "dict", kv |-> kv]
Person(name, age, children) ==
    [t |-> "Person", name |-> name, age |-> age, children |-> children]

\* a local that main() has not assigned yet
Unset == [t |-> "unset"]

ValidationError == [t |-> "ValidationError"]
TypeError == [t |-> "TypeError"]
MsgpackEncodeError == [t |-> "MsgpackEncodeError"]
MsgpackDecodeError == [t |-> "MsgpackDecodeError"]

IsError(v) ==
    v.t \in {"ValidationError", "TypeError", "MsgpackEncodeError", "MsgpackDecodeError"}

\* the UTF-8 bytes of the key names used by the models and by Person
K_name == <<110, 97, 109, 101>>
K_age == <<97, 103, 101>>
K_children == <<99, 104, 105, 108, 100, 114, 101, 110>>
K_person == <<112, 101, 114, 115, 111, 110>>
K_sub == <<115, 117, 98>>
K_inner == <<105, 110, 110, 101, 114>>
K_extra == <<120>>

\* dict operations on the insertion-ordered pair sequence
HasKey(d, k) == \E n \in 1..Len(d.kv) : d.kv[n][1] = k
GetItem(d, k) == d.kv[CHOOSE n \in 1..Len(d.kv) : d.kv[n][1] = k][2]
Keys(d) == {d.kv[n][1] : n \in 1..Len(d.kv)}
\* d[k] = v: an existing key keeps its position, a new key goes last
SetItem(kv, k, v) ==
    IF \E n \in 1..Len(kv) : kv[n][1] = k
    THEN [n \in 1..Len(kv) |-> IF kv[n][1] = k THEN <<k, v>> ELSE kv[n]]
    ELSE Append(kv, <<k, v>>)

RECURSIVE Flatten(_)
Flatten(ss) == IF ss = <<>> THEN <<>> ELSE Head(ss) \o Flatten(Tail(ss))

----------------------------------------------------------------------------
(* The native Person type and its tree generator *)

\* per-node draws of the generator, as a function of the seed and of the
\* node's position in the tree
NameAt(seed, pos) == <<80, 65 + ((seed + pos) % 26)>>
AgeAt(seed, pos) == (seed * 31 + pos * 17) % 200

RECURSIVE BuildTrees(_, _, _, _), ChildSeqs(_, _, _, _, _)
\* the sequences of n children of the node at pos, each a tree of depth <= depth
ChildSeqs(depth, max_children, seed, pos, n) ==
    IF n = 0 THEN {<<>>}
    ELSE {Append(cs, c) :
            cs \in ChildSeqs(depth, max_children, seed, pos, n - 1),
            c \in BuildTrees(depth, max_children, seed, pos * (max_children + 1) + n)}

\* every tree the generator may return for (depth, max_children) under seed
BuildTrees(depth, max_children, seed, pos) ==
    IF depth = 0
    THEN {Person(NameAt(seed, pos), AgeAt(seed, pos), <<>>)}
    ELSE UNION {
            {Person(NameAt(seed, pos), AgeAt(seed, pos), cs) :
                cs \in ChildSeqs(depth - 1, max_children, seed, pos, n)} :
            n \in 0..max_children}

\* a generator whose base case is missed: depth 0 still gets a level of children
create_nested_person_nobase(depth, max_children) ==
    UNION {BuildTrees(IF depth = 0 THEN 1 ELSE depth, max_children, seed, 0) :
            seed \in 0..MaxSeed}

create_nested_person(depth, max_children) ==
    UNION {BuildTrees(depth, max_children, seed, 0) : seed \in 0..MaxSeed}

\* Person.__dict__: the plain-data view of a Person, children included
RECURSIVE Person_dict(_)
Person_dict(p) ==
    PyDict(<< <<K_name, PyStr(p.name)>>,
              <<K_age, PyInt(p.age)>>,
              <<K_children,
                PyList([n \in 1..Len(p.children) |-> Person_dict(p.children[n])])>> >>)

\* Person.validate: a Person passes through (line 68 hands it a Person); a
\* mapping is rebuilt into a Person, children first
RECURSIVE Person_validate(_)
Person_validate(v) ==
    IF v.t = "Person" THEN v
    ELSE IF v.t # "dict" THEN ValidationError
    ELSE IF ~(HasKey(v, K_name) /\ HasKey(v, K_age) /\ HasKey(v, K_children))
    THEN ValidationError
    ELSE LET name == GetItem(v, K_name)
             age == GetItem(v, K_age)
             children == GetItem(v, K_children)
         IN  IF name.t # "str" \/ age.t # "int" \/ children.t # "list"
             THEN ValidationError
             ELSE LET cs == [n \in 1..Len(children.xs) |->
                                Person_validate(children.xs[n])]
                  IN  IF \E n \in 1..Len(cs) : cs[n].t # "Person"
                      THEN ValidationError
                      ELSE Person(name.s, age.i, cs)

----------------------------------------------------------------------------
(* The pydantic models *)

\* a validator that rebuilds the root of a mapping and drops its children
PersonWrapper_validate_flat(v) ==
    LET r == Person_validate(v)
    IN  IF v.t = "dict" /\ r.t = "Person" THEN Person(r.name, r.age, <<>>) ELSE r

\* a validator that reads a missing children key as no children
PersonWrapper_validate_lenient(v) ==
    IF v.t = "dict" /\ ~HasKey(v, K_children)
    THEN Person_validate(PyDict(Append(v.kv, <<K_children, PyList(<<>>)>>)))
    ELSE Person_validate(v)

\* PlainValidator(Person.validate)
PersonWrapper_validate(v) == Person_validate(v)

\* a serializer that leaves the children out
PersonWrapper_serialize_nochildren(v) ==
    PyDict(<< <<K_name, PyStr(v.name)>>,
              <<K_age, PyInt(v.age)>>,
              <<K_children, PyList(<<>>)>> >>)

\* a serializer that copies the attributes as they are, the children still
\* Person objects
PersonWrapper_serialize_shallow(v) ==
    PyDict(<< <<K_name, PyStr(v.name)>>,
              <<K_age, PyInt(v.age)>>,
              <<K_children, PyList(v.children)>> >>)

\* PlainSerializer(lambda v: v.__dict__, return_type=dict)
PersonWrapper_serialize(v) == Person_dict(v)

\* MySubModel(**kwargs): field person is required, other keys are ignored
MySubModel_init(kwargs) ==
    IF ~HasKey(kwargs, K_person) THEN ValidationError
    ELSE LET p == PersonWrapper_validate(GetItem(kwargs, K_person))
         IN  IF IsError(p) THEN ValidationError
             ELSE [t |-> "MySubModel", person |-> p]

\* validation of a value for a field typed MySubModel
MySubModel_validate(v) ==
    IF v.t = "MySubModel" THEN v
    ELSE IF v.t = "dict" THEN MySubModel_init(v)
    ELSE ValidationError

\* MyModel with the field declared optional: sub: MySubModel | None = None
MyModel_init_optional(kwargs) ==
    IF kwargs.t # "dict" THEN TypeError
    ELSE IF ~HasKey(kwargs, K_sub) THEN [t |-> "MyModel", sub |-> PyNone]
    ELSE LET s == MySubModel_validate(GetItem(kwargs, K_sub))
         IN  IF IsError(s) THEN ValidationError
             ELSE [t |-> "MyModel", sub |-> s]

\* MyModel(**kwargs): field sub is required, other keys are ignored
MyModel_init(kwargs) ==
    IF kwargs.t # "dict" THEN TypeError
    ELSE IF ~HasKey(kwargs, K_sub) THEN ValidationError
    ELSE LET s == MySubModel_validate(GetItem(kwargs, K_sub))
         IN  IF IsError(s) THEN ValidationError
             ELSE [t |-> "MyModel", sub |-> s]

\* MyModel.model_dump()
model_dump(m) ==
    PyDict(<< <<K_sub,
                PyDict(<< <<K_person, PersonWrapper_serialize(m.sub.person)>> >>)>> >>)

----------------------------------------------------------------------------
(* ormsgpack: the MessagePack encoding *)

Bytes(b) == [t |-> "bytes", b |-> b]

BE16(n) == <<n \div 256, n % 256>>
BE32(n) == <<n \div 16777216, (n \div 65536) % 256, (n \div 256) % 256, n % 256>>
Complement(bs) == [n \in 1..Len(bs) |-> 255 - bs[n]]

\* an encoder that writes every integer up to 255 as one byte
EncodeInt_onebyte(i) ==
    IF i >= 0
    THEN IF i <= 255 THEN <<i>>
         ELSE IF i <= 65535 THEN <<205>> \o BE16(i)
         ELSE <<206>> \o BE32(i)
    ELSE IF i >= -32 THEN <<256 + i>>
         ELSE IF i >= -128 THEN <<208, 256 + i>>
         ELSE IF i >= -32768 THEN <<209>> \o Complement(BE16(-i - 1))
         ELSE <<210>> \o Complement(BE32(-i - 1))

EncodeInt(i) ==
    IF i >= 0
    THEN IF i <= 127 THEN <<i>>
         ELSE IF i <= 255 THEN <<204, i>>
         ELSE IF i <= 65535 THEN <<205>> \o BE16(i)
         ELSE <<206>> \o BE32(i)
    ELSE IF i >= -32 THEN <<256 + i>>
         ELSE IF i >= -128 THEN <<208, 256 + i>>
         ELSE IF i >= -32768 THEN <<209>> \o Complement(BE16(-i - 1))
         ELSE <<210>> \o Complement(BE32(-i - 1))

EncodeStr(s) ==
    IF Len(s) <= 31 THEN <<160 + Len(s)>> \o s
    ELSE IF Len(s) <= 255 THEN <<217, Len(s)>> \o s
    ELSE <<218>> \o BE16(Len(s)) \o s

ArrayHeader(n) == IF n <= 15 THEN <<144 + n>> ELSE <<220>> \o BE16(n)
MapHeader(n) == IF n <= 15 THEN <<128 + n>> ELSE <<222>> \o BE16(n)

RECURSIVE Serializable(_)
Serializable(v) ==
    CASE v.t \in {"none", "bool", "int", "str"} -> TRUE
      [] v.t = "list" -> \A n \in 1..Len(v.xs) : Serializable(v.xs[n])
      [] v.t = "dict" -> \A n \in 1..Len(v.kv) : Serializable(v.kv[n][2])
      [] OTHER -> FALSE

RECURSIVE Encode(_)
Encode(v) ==
    CASE v.t = "none" -> <<192>>
      [] v.t = "bool" -> IF v.b THEN <<195>> ELSE <<194>>
      [] v.t = "int" -> EncodeInt(v.i)
      [] v.t = "str" -> EncodeStr(v.s)
      [] v.t = "list" ->
            ArrayHeader(Len(v.xs))
                \o Flatten([n \in 1..Len(v.xs) |-> Encode(v.xs[n])])
      [] v.t = "dict" ->
            MapHeader(Len(v.kv))
                \o Flatten([n \in 1..Len(v.kv) |->
                                EncodeStr(v.kv[n][1]) \o Encode(v.kv[n][2])])

\* ormsgpack.packb
packb(v) == IF Serializable(v) THEN Bytes(Encode(v)) ELSE MsgpackEncodeError

DecodeFail == [ok |-> FALSE, val |-> PyNone, next |-> 0]
DecodeOk(v, next) == [ok |-> TRUE, val |-> v, next |-> next]

\* the unsigned big-endian value of the n bytes of b that start at i
RECURSIVE UInt(_, _, _)
UInt(b, i, n) == IF n = 0 THEN 0 ELSE UInt(b, i, n - 1) * 256 + b[i + n - 1]
\* the two's-complement value of the same bytes
SInt(b, i, n) ==
    IF b[i] >= 128
    THEN -UInt(Complement(SubSeq(b, i, i + n - 1)), 1, n) - 1
    ELSE UInt(b, i, n)

RECURSIVE Decode(_, _), DecodeItems(_, _, _, _), DecodePairs(_, _, _, _)
\* n more array items from position i
DecodeItems(b, i, n, acc) ==
    IF n = 0 THEN DecodeOk(PyList(acc), i)
    ELSE LET r == Decode(b, i)
         IN  IF ~r.ok THEN DecodeFail
             ELSE DecodeItems(b, r.next, n - 1, Append(acc, r.val))

\* n more map entries from position i; keys are strings
DecodePairs(b, i, n, acc) ==
    IF n = 0 THEN DecodeOk(PyDict(acc), i)
    ELSE LET k == Decode(b, i)
         IN  IF ~k.ok \/ k.val.t # "str" THEN DecodeFail
             ELSE LET r == Decode(b, k.next)
                  IN  IF ~r.ok THEN DecodeFail
                      ELSE DecodePairs(b, r.next, n - 1,
                                       SetItem(acc, k.val.s, r.val))

DecodeStr(b, i, len) ==
    IF i + len - 1 > Len(b) THEN DecodeFail
    ELSE DecodeOk(PyStr(SubSeq(b, i, i + len - 1)), i + len)

DecodeUInt(b, i, n) ==
    IF i + n - 1 > Len(b) THEN DecodeFail
    ELSE DecodeOk(PyInt(UInt(b, i, n)), i + n)

DecodeSInt(b, i, n) ==
    IF i + n - 1 > Len(b) THEN DecodeFail
    ELSE DecodeOk(PyInt(SInt(b, i, n)), i + n)

\* the value that starts at position i, and the position after it
Decode(b, i) ==
    IF i > Len(b) THEN DecodeFail
    ELSE LET tag == b[i]
         IN  CASE tag <= 127 -> DecodeOk(PyInt(tag), i + 1)
               [] tag \in 128..143 -> DecodePairs(b, i + 1, tag - 128, <<>>)
               [] tag \in 144..159 -> DecodeItems(b, i + 1, tag - 144, <<>>)
               [] tag \in 160..191 -> DecodeStr(b, i + 1, tag - 160)
               [] tag = 192 -> DecodeOk(PyNone, i + 1)
               [] tag = 194 -> DecodeOk(PyBool(FALSE), i + 1)
               [] tag = 195 -> DecodeOk(PyBool(TRUE), i + 1)
               [] tag = 204 -> DecodeUInt(b, i + 1, 1)
               [] tag = 205 -> DecodeUInt(b, i + 1, 2)
               [] tag = 206 -> DecodeUInt(b, i + 1, 4)
               [] tag = 208 -> DecodeSInt(b, i + 1, 1)
               [] tag = 209 -> DecodeSInt(b, i + 1, 2)
               [] tag = 210 -> DecodeSInt(b, i + 1, 4)
               [] tag = 217 ->
                    IF i + 1 > Len(b) THEN DecodeFail
                    ELSE DecodeStr(b, i + 2, b[i + 1])
               [] tag = 218 ->
                    IF i + 2 > Len(b) THEN DecodeFail
                    ELSE DecodeStr(b, i + 3, UInt(b, i + 1, 2))
               [] tag = 220 ->
                    IF i + 2 > Len(b) THEN DecodeFail
                    ELSE DecodeItems(b, i + 3, UInt(b, i + 1, 2), <<>>)
               [] tag = 222 ->
                    IF i + 2 > Len(b) THEN DecodeFail
                    ELSE DecodePairs(b, i + 3, UInt(b, i + 1, 2), <<>>)
               [] tag >= 224 -> DecodeOk(PyInt(tag - 256), i + 1)
               [] OTHER -> DecodeFail

\* ormsgpack.unpackb
unpackb(p) ==
    IF p.t # "bytes" THEN TypeError
    ELSE LET r == Decode(p.b, 1)
         IN  IF r.ok /\ r.next = Len(p.b) + 1 THEN r.val ELSE MsgpackDecodeError

----------------------------------------------------------------------------
(* main(): one action per statement group; pc names the next line, "done",
   or the exception that ended the run *)

MainInit ==
    /\ pc = "L60"
    /\ generated = Unset
    /\ nested_person = Unset
    /\ my_model = Unset
    /\ dump = Unset
    /\ packed = Unset
    /\ unpacked = Unset
    /\ parsed = Unset
    /\ g_depth = Unset /\ g_kids = Unset /\ g_tree = Unset
    /\ v_in = Unset /\ v_out = Unset
    /\ stack = Unset /\ constructed = Unset /\ fail_path = Unset

\* nested_person: Person = create_nested_person(depth=3, max_children=2)
Create ==
    /\ pc = "L60"
    /\ \E p \in create_nested_person(Depth, MaxChildren) :
        /\ nested_person' = p
        /\ generated' = p
    /\ pc' = "L62"
    /\ UNCHANGED <<my_model, dump, packed, unpacked, parsed>>
    /\ UNCHANGED <<genVars, valVars, stepVars>>

\* the assignment does not reach the Person
SetAge_lost ==
    /\ pc = "L62"
    /\ pc' = "L66"
    /\ UNCHANGED mainVars
    /\ UNCHANGED <<genVars, valVars, stepVars>>

\* nested_person.age = 10
SetAge ==
    /\ pc = "L62"
    /\ nested_person' = [nested_person EXCEPT !.age = NewAge]
    /\ pc' = "L66"
    /\ UNCHANGED <<generated, my_model, dump, packed, unpacked, parsed>>
    /\ UNCHANGED <<genVars, valVars, stepVars>>

\* assert isinstance(nested_person, Person)
AssertPerson ==
    /\ pc = "L66"
    /\ pc' = IF nested_person.t = "Person" THEN "L68" ELSE "AssertionError"
    /\ UNCHANGED mainVars
    /\ UNCHANGED <<genVars, valVars, stepVars>>

\* MyModel(sub=MySubModel(person=p))
WrapPerson(p) ==
    LET sub == MySubModel_init(PyDict(<< <<K_person, p>> >>))
    IN  IF IsError(sub) THEN sub ELSE MyModel_init(PyDict(<< <<K_sub, sub>> >>))

\* my_model = MyModel(sub=MySubModel(person=nested_person))
Wrap ==
    /\ pc = "L68"
    /\ my_model' = WrapPerson(nested_person)
    /\ pc' = IF IsError(my_model') THEN my_model'.t ELSE "L70"
    /\ UNCHANGED <<generated, nested_person, dump, packed, unpacked, parsed>>
    /\ UNCHANGED <<genVars, valVars, stepVars>>

\* dump = my_model.model_dump()
Dump ==
    /\ pc = "L70"
    /\ dump' = model_dump(my_model)
    /\ pc' = "L72"
    /\ UNCHANGED <<generated, nested_person, my_model, packed, unpacked, parsed>>
    /\ UNCHANGED <<genVars, valVars, stepVars>>

\* the outcome of the five asserts on dump, lines 72 to 76
DumpAsserts(d) ==
    IF d.t # "dict" THEN "AssertionError"
    ELSE IF ~HasKey(d, K_sub) THEN "KeyError"
    ELSE IF GetItem(d, K_sub).t # "dict" THEN "AssertionError"
    ELSE IF ~HasKey(GetItem(d, K_sub), K_person) THEN "KeyError"
    ELSE LET person == GetItem(GetItem(d, K_sub), K_person)
         IN  IF person.t # "dict" THEN "AssertionError"
             ELSE IF ~HasKey(person, K_children) THEN "KeyError"
             ELSE LET children == GetItem(person, K_children)
                  IN  IF children.t # "list" THEN "AssertionError"
                      ELSE IF Len(children.xs) = 0 THEN "IndexError"
                      ELSE IF children.xs[1].t # "dict" THEN "AssertionError"
                      ELSE "L78"

AssertDump ==
    /\ pc = "L72"
    /\ pc' = DumpAsserts(dump)
    /\ UNCHANGED mainVars
    /\ UNCHANGED <<genVars, valVars, stepVars>>

\* packed = ormsgpack.packb(dump); assert isinstance(packed, bytes)
Pack ==
    /\ pc = "L78"
    /\ packed' = packb(dump)
    /\ pc' = IF IsError(packed') THEN packed'.t ELSE "L81"
    /\ UNCHANGED <<generated, nested_person, my_model, dump, unpacked, parsed>>
    /\ UNCHANGED <<genVars, valVars, stepVars>>

\* unpacked = ormsgpack.unpackb(packed); assert isinstance(unpacked, dict)
Unpack ==
    /\ pc = "L81"
    /\ unpacked' = unpackb(packed)
    /\ pc' = IF IsError(unpacked') THEN unpacked'.t
             ELSE IF unpacked'.t # "dict" THEN "AssertionError"
             ELSE "L84"
    /\ UNCHANGED <<generated, nested_person, my_model, dump, packed, parsed>>
    /\ UNCHANGED <<genVars, valVars, stepVars>>

\* parsed = MyModel(**unpacked)
Parse ==
    /\ pc = "L84"
    /\ parsed' = MyModel_init(unpacked)
    /\ pc' = IF IsError(parsed') THEN parsed'.t ELSE "L87"
    /\ UNCHANGED <<generated, nested_person, my_model, dump, packed, unpacked>>
    /\ UNCHANGED <<genVars, valVars, stepVars>>

\* assert parsed == my_model
AssertEqual ==
    /\ pc = "L87"
    /\ pc' = IF parsed = my_model THEN "L89" ELSE "AssertionError"
    /\ UNCHANGED mainVars
    /\ UNCHANGED <<genVars, valVars, stepVars>>

\* the outcome of the four asserts on parsed, lines 89 to 92
ParsedAsserts(m) ==
    IF m.sub.t # "MySubModel" THEN "AssertionError"
    ELSE IF m.sub.person.t # "Person" THEN "AssertionError"
    ELSE IF Len(m.sub.person.children) = 0 THEN "IndexError"
    ELSE IF m.sub.person.children[1].t # "Person" THEN "AssertionError"
    ELSE "done"

AssertParsed ==
    /\ pc = "L89"
    /\ pc' = ParsedAsserts(parsed)
    /\ UNCHANGED mainVars
    /\ UNCHANGED <<genVars, valVars, stepVars>>

MainNext ==
    \/ Create
    \/ SetAge
    \/ AssertPerson
    \/ Wrap
    \/ Dump
    \/ AssertDump
    \/ Pack
    \/ Unpack
    \/ Parse
    \/ AssertEqual
    \/ AssertParsed

Init == MainInit

Next == MainNext

Spec == Init /\ [][Next]_vars

----------------------------------------------------------------------------
(* Measures and views of trees and values, used to state the properties *)

Max(S) == CHOOSE x \in S : \A y \in S : y <= x

RECURSIVE TreeDepth(_)
\* levels below the root
TreeDepth(p) ==
    IF p.children = <<>> THEN 0
    ELSE 1 + Max({TreeDepth(p.children[n]) : n \in 1..Len(p.children)})

RECURSIVE Sum(_)
Sum(ns) == IF ns = <<>> THEN 0 ELSE Head(ns) + Sum(Tail(ns))

RECURSIVE NodeCount(_)
NodeCount(p) == 1 + Sum([n \in 1..Len(p.children) |-> NodeCount(p.children[n])])

RECURSIVE MaxFanout(_)
MaxFanout(p) ==
    Max({Len(p.children)} \cup {MaxFanout(p.children[n]) : n \in 1..Len(p.children)})

RECURSIVE Subtrees(_)
\* p and every Person below it
Subtrees(p) ==
    {p} \cup UNION {Subtrees(p.children[n]) : n \in 1..Len(p.children)}

RECURSIVE SubValues(_)
\* v and every value nested in it
SubValues(v) ==
    {v} \cup
    CASE v.t = "list" -> UNION {SubValues(v.xs[n]) : n \in 1..Len(v.xs)}
      [] v.t = "dict" ->
            UNION {SubValues(v.kv[n][2]) \cup {PyStr(v.kv[n][1])} : n \in 1..Len(v.kv)}
      [] v.t = "Person" ->
            UNION {SubValues(v.children[n]) : n \in 1..Len(v.children)}
      [] OTHER -> {}

RECURSIVE MatchesPerson(_, _)
\* g is the plain-data image of Person p: a mapping with exactly the keys
\* name, age and children, children a list of the images of p's children
MatchesPerson(g, p) ==
    /\ g.t = "dict"
    /\ Len(g.kv) = 3
    /\ Keys(g) = {K_name, K_age, K_children}
    /\ GetItem(g, K_name) = PyStr(p.name)
    /\ GetItem(g, K_age) = PyInt(p.age)
    /\ GetItem(g, K_children).t = "list"
    /\ Len(GetItem(g, K_children).xs) = Len(p.children)
    /\ \A n \in 1..Len(p.children) :
            MatchesPerson(GetItem(g, K_children).xs[n], p.children[n])

\* no Person object at any depth of v
NoPerson(v) == \A x \in SubValues(v) : x.t # "Person"

\* the dump is {key: {person: image of the model's Person}} and pure data
DumpShape(d, m, key) ==
    /\ d.t = "dict"
    /\ Len(d.kv) = 1
    /\ Keys(d) = {key}
    /\ LET inner == GetItem(d, key)
       IN  /\ inner.t = "dict"
           /\ Len(inner.kv) = 1
           /\ Keys(inner) = {K_person}
           /\ MatchesPerson(GetItem(inner, K_person), m.sub.person)
    /\ NoPerson(d)

\* dump, encode, decode, validate
Pipeline(m) == MyModel_init(unpackb(packb(model_dump(m))))

----------------------------------------------------------------------------
(* Properties of main() *)

\* C1: for every MyModel wrapping a generated Person tree (as generated, and
\* after the root's age was reassigned), validating the unpacked packed dump
\* gives a model equal to the original, and so does validating the dump itself;
\* main's own parsed equals my_model.
ComposedRoundTrip ==
    /\ \A p \in {generated, nested_person} :
            p.t = "Person" =>
                LET m == WrapPerson(p)
                IN  /\ m.t = "MyModel"
                    /\ Pipeline(m) = m
                    /\ MyModel_init(model_dump(m)) = m
    /\ parsed # Unset => parsed = my_model

ComposedRoundTripWitness ==
    /\ pc = "done"
    /\ parsed = my_model
    /\ TreeDepth(parsed.sub.person) = Depth
    /\ MaxFanout(parsed.sub.person) = MaxChildren

\* C2: for every generated Person tree p and every Person s at any depth of
\* it, validating the serialized s gives a Person equal to s.
BridgeRoundTrip ==
    \A p \in {generated, nested_person} :
        p.t = "Person" =>
            \A s \in Subtrees(p) :
                PersonWrapper_validate(PersonWrapper_serialize(s)) = s

BridgeRoundTripWitness ==
    /\ pc = "L62"
    /\ TreeDepth(generated) = Depth
    /\ NodeCount(generated) > 7
    /\ PersonWrapper_validate(PersonWrapper_serialize(generated)).t = "Person"

\* C3: every value of the dump, at any nesting level (mappings, sequences,
\* strings, integers), and the plain-data image of the generated tree, is
\* returned unchanged by unpackb(packb(v)); main's own unpacked equals dump.
CodecRoundTrip ==
    /\ dump # Unset =>
            \A v \in SubValues(dump) : Serializable(v) => unpackb(packb(v)) = v
    /\ generated # Unset =>
            unpackb(packb(Person_dict(generated))) = Person_dict(generated)
    /\ unpacked # Unset => unpacked = dump

CodecRoundTripWitness ==
    /\ pc = "L84"
    /\ unpacked = dump
    /\ packed.t = "bytes"
    /\ \E v \in SubValues(dump) : v.t = "int" /\ v.i > 127
    /\ \E v \in SubValues(dump) : v.t = "list" /\ Len(v.xs) = MaxChildren

\* C4: once the root's age has been reassigned, the pipeline applied to the
\* wrapped tree yields a model whose root age is NewAge and whose root
\* children are those of the tree as generated; main's own parsed is such a
\* model.
CarriedRoot(m) ==
    /\ m.t = "MyModel"
    /\ m.sub.person.age = NewAge
    /\ m.sub.person.children = generated.children

MutationCarried ==
    /\ pc \notin {"L60", "L62"} => CarriedRoot(Pipeline(WrapPerson(nested_person)))
    /\ parsed # Unset => CarriedRoot(parsed)

MutationCarriedWitness ==
    /\ pc = "L87"
    /\ generated.age # NewAge
    /\ parsed.sub.person.age = NewAge
    /\ Len(parsed.sub.person.children) = MaxChildren
    /\ parsed.sub.person.children = generated.children

\* C5 as stated: the dump is the mapping {inner: {person: image}}.
DumpShapeInner == dump # Unset => DumpShape(dump, my_model, K_inner)

\* C5 amended: the dump is the mapping {sub: {person: image}}, the image a
\* mapping with keys name, age, children built recursively, and no Person
\* object at any depth.
DumpShapeSub == dump # Unset => DumpShape(dump, my_model, K_sub)

DumpShapeWitness ==
    /\ pc = "L72"
    /\ DumpShape(dump, my_model, K_sub)
    /\ TreeDepth(my_model.sub.person) = Depth

\* C10: main never ends in a failed assertion or an index error.
MainCompletes == pc \notin {"AssertionError", "IndexError"}

----------------------------------------------------------------------------
(* The generator on its own: one call for each explored (depth, max_children) *)

\* depths up to GenMaxDepth with the program's breadth or less, breadths up to
\* GenMaxKids at depth 0 and 1, and main's own arguments
GenParams ==
    {dk \in (0..GenMaxDepth) \X (0..GenMaxKids) : dk[1] <= 1 \/ dk[2] <= MaxChildren}
        \cup {<<Depth, MaxChildren>>}

GenInit ==
    /\ pc = "call"
    /\ \E dk \in GenParams : g_depth = dk[1] /\ g_kids = dk[2]
    /\ g_tree = Unset
    /\ generated = Unset /\ nested_person = Unset /\ my_model = Unset
    /\ dump = Unset /\ packed = Unset /\ unpacked = Unset /\ parsed = Unset
    /\ v_in = Unset /\ v_out = Unset
    /\ stack = Unset /\ constructed = Unset /\ fail_path = Unset

\* create_nested_person(depth=g_depth, max_children=g_kids)
GenBuild ==
    /\ pc = "call"
    /\ g_tree' \in create_nested_person(g_depth, g_kids)
    /\ pc' = "returned"
    /\ UNCHANGED <<g_depth, g_kids, mainVars, valVars, stepVars>>

GenNext == GenBuild

SpecGen == GenInit /\ [][GenNext]_vars

\* C8: a returned tree has at most max_children children at every node and no
\* node more than depth levels below the root; for depth 0 it is a single node
\* without children; for main's arguments it has at most 15 nodes.
GeneratorBounds ==
    pc = "returned" =>
        /\ MaxFanout(g_tree) <= g_kids
        /\ TreeDepth(g_tree) <= g_depth
        /\ g_depth = 0 => g_tree.children = <<>> /\ NodeCount(g_tree) = 1
        /\ g_depth = Depth /\ g_kids = MaxChildren => NodeCount(g_tree) <= 15

GeneratorBoundsWitness ==
    /\ pc = "returned"
    /\ g_depth = Depth
    /\ g_kids = MaxChildren
    /\ TreeDepth(g_tree) = Depth
    /\ NodeCount(g_tree) = 15

----------------------------------------------------------------------------
(* The validators on intact and damaged input *)

RemoveKey(d, k) == PyDict(SelectSeq(d.kv, LAMBDA e : e[1] # k))
WithItem(d, k, v) == PyDict(SetItem(d.kv, k, v))

\* the mapping g with one defect at its own level
DamagedRoot(g) ==
    { RemoveKey(g, K_children),
      WithItem(g, K_children, PyInt(0)),
      WithItem(g, K_children, PyNone),
      RemoveKey(g, K_name),
      WithItem(g, K_age, PyStr(K_extra)),
      WithItem(g, K_children,
               PyList(Append(GetItem(g, K_children).xs, PyInt(0)))) }

RECURSIVE AllDamaged(_)
\* the mapping g with one defect at one node, the root or any descendant
AllDamaged(g) ==
    LET xs == GetItem(g, K_children).xs
    IN  DamagedRoot(g) \cup
        UNION {{WithItem(g, K_children, PyList([xs EXCEPT ![n] = d])) :
                    d \in AllDamaged(xs[n])} : n \in 1..Len(xs)}

WellFormedInputs ==
    {Person_dict(p) : p \in create_nested_person(ValMaxDepth, MaxChildren)}

\* the values handed to the Person validator that derive from the intact
\* mapping g: g itself, g with one defect, g with an unknown key, and values
\* that are no mapping
PersonInputs(g) ==
    {g} \cup AllDamaged(g)
        \cup {WithItem(g, K_extra, PyInt(0)), PyInt(1), PyNone, PyList(<<>>)}

Rec1(k, v) == PyDict(<< <<k, v>> >>)

\* the values handed to MyModel that derive from g: each Person input wrapped
\* in both levels, and wrappers with a level missing, renamed or extended
ModelInputs(g) ==
    {Rec1(K_sub, Rec1(K_person, x)) : x \in PersonInputs(g)}
        \cup { PyDict(<<>>),
               Rec1(K_inner, Rec1(K_person, g)),
               Rec1(K_sub, PyDict(<<>>)),
               Rec1(K_sub, Rec1(K_extra, g)),
               Rec1(K_sub, g),
               Rec1(K_sub, PyInt(0)),
               PyDict(<< <<K_extra, PyInt(0)>>,
                         <<K_sub, PyDict(<< <<K_person, g>>, <<K_extra, PyNone>> >>)>> >>) }

ValInit ==
    /\ \E g \in WellFormedInputs :
        \/ pc = "from_generic" /\ v_in \in PersonInputs(g)
        \/ pc = "validate" /\ v_in \in ModelInputs(g)
    /\ v_out = Unset
    /\ generated = Unset /\ nested_person = Unset /\ my_model = Unset
    /\ dump = Unset /\ packed = Unset /\ unpacked = Unset /\ parsed = Unset
    /\ g_depth = Unset /\ g_kids = Unset /\ g_tree = Unset
    /\ stack = Unset /\ constructed = Unset /\ fail_path = Unset

\* the validator installed on the person field, applied to v_in
FromGeneric ==
    /\ pc = "from_generic"
    /\ v_out' = PersonWrapper_validate(v_in)
    /\ pc' = "from_generic_done"
    /\ UNCHANGED <<v_in, mainVars, genVars, stepVars>>

\* MyModel(**v_in)
Validate ==
    /\ pc = "validate"
    /\ v_out' = MyModel_init(v_in)
    /\ pc' = "validate_done"
    /\ UNCHANGED <<v_in, mainVars, genVars, stepVars>>

ValNext ==
    \/ FromGeneric
    \/ Validate

SpecVal == ValInit /\ [][ValNext]_vars

Scalar(v) == v.t \in {"int", "str", "bool", "none"}

RECURSIVE BadChildren(_)
\* a mapping without the children key, or whose children value is a scalar,
\* or one of whose children entries is such a mapping, at any depth
BadChildren(v) ==
    /\ v.t = "dict"
    /\ \/ ~HasKey(v, K_children)
       \/ Scalar(GetItem(v, K_children))
       \/ /\ GetItem(v, K_children).t = "list"
          /\ \E n \in 1..Len(GetItem(v, K_children).xs) :
                BadChildren(GetItem(v, K_children).xs[n])

\* C6: the validator applied to such a mapping fails with ValidationError and
\* returns no Person.
FromGenericRejects ==
    pc = "from_generic_done" /\ BadChildren(v_in) =>
        v_out = ValidationError /\ v_out.t # "Person"

\* the defect is two levels below the root, in an otherwise intact mapping
FromGenericRejectsWitness ==
    /\ pc = "from_generic_done"
    /\ v_out = ValidationError
    /\ v_in.t = "dict"
    /\ HasKey(v_in, K_name) /\ HasKey(v_in, K_age) /\ HasKey(v_in, K_children)
    /\ GetItem(v_in, K_children).t = "list"
    /\ \E n \in 1..Len(GetItem(v_in, K_children).xs) :
        LET c == GetItem(v_in, K_children).xs[n]
        IN  /\ c.t = "dict"
            /\ HasKey(c, K_children)
            /\ GetItem(c, K_children).t = "list"
            /\ \E k \in 1..Len(GetItem(c, K_children).xs) :
                LET gc == GetItem(c, K_children).xs[k]
                IN  gc.t = "dict" /\ ~HasKey(gc, K_children)

\* the cases in which record-level validation must fail, the outer key being key
RejectCase(v, key) ==
    /\ v.t = "dict"
    /\ \/ ~HasKey(v, key)
       \/ /\ GetItem(v, key).t = "dict"
          /\ \/ ~HasKey(GetItem(v, key), K_person)
             \/ PersonWrapper_validate(GetItem(GetItem(v, key), K_person)) = ValidationError

\* all three levels match, the outer key being key
LevelsMatch(v, key) ==
    /\ v.t = "dict"
    /\ HasKey(v, key)
    /\ GetItem(v, key).t = "dict"
    /\ HasKey(GetItem(v, key), K_person)
    /\ PersonWrapper_validate(GetItem(GetItem(v, key), K_person)).t = "Person"

ValidateStrict(key) ==
    pc = "validate_done" =>
        /\ RejectCase(v_in, key) => v_out = ValidationError
        /\ v_out.t = "MyModel" => LevelsMatch(v_in, key)

\* C7 as stated: validation fails with ValidationError when the outer mapping
\* lacks the key inner, or the inner mapping lacks person, or the Person
\* validator fails, and returns a model only when all three levels match.
ValidateStrictInner == ValidateStrict(K_inner)

\* C7 amended: the same with the outer key sub, the name of MyModel's field.
ValidateStrictSub == ValidateStrict(K_sub)

ValidateStrictWitness ==
    /\ pc = "validate_done"
    /\ v_out = ValidationError
    /\ v_in.t = "dict"
    /\ ~HasKey(v_in, K_sub)
    /\ HasKey(v_in, K_inner)

----------------------------------------------------------------------------
(* Person.validate on a mapping, one node at a time: a mapping is entered and
   checked, its children entries are validated in order, and only then is its
   Person constructed and handed to the parent *)

Frame(v, path) == [v |-> v, path |-> path, built |-> <<>>, checked |-> FALSE]

Top == stack[Len(stack)]

\* the node-level checks of Person.validate
ShapeOk(v) ==
    /\ v.t = "dict"
    /\ HasKey(v, K_name) /\ HasKey(v, K_age) /\ HasKey(v, K_children)
    /\ GetItem(v, K_name).t = "str"
    /\ GetItem(v, K_age).t = "int"
    /\ GetItem(v, K_children).t = "list"

StepInit ==
    /\ pc = "validating"
    /\ \E g \in WellFormedInputs : v_in \in PersonInputs(g)
    /\ v_out = Unset
    /\ stack = <<Frame(v_in, <<>>)>>
    /\ constructed = {}
    /\ fail_path = <<>>
    /\ generated = Unset /\ nested_person = Unset /\ my_model = Unset
    /\ dump = Unset /\ packed = Unset /\ unpacked = Unset /\ parsed = Unset
    /\ g_depth = Unset /\ g_kids = Unset /\ g_tree = Unset

\* the Person is constructed as soon as its mapping is entered, before its
\* children
Accept_eager ==
    /\ pc = "validating"
    /\ ~Top.checked
    /\ ShapeOk(Top.v)
    /\ stack' = [stack EXCEPT ![Len(stack)].checked = TRUE]
    /\ constructed' = constructed \cup
            {[path |-> Top.path,
              person |-> Person(GetItem(Top.v, K_name).s, GetItem(Top.v, K_age).i, <<>>)]}
    /\ UNCHANGED <<pc, fail_path, v_in, v_out, mainVars, genVars>>

\* the entered mapping passes the node-level checks
Accept ==
    /\ pc = "validating"
    /\ ~Top.checked
    /\ ShapeOk(Top.v)
    /\ stack' = [stack EXCEPT ![Len(stack)].checked = TRUE]
    /\ UNCHANGED <<pc, constructed, fail_path, v_in, v_out, mainVars, genVars>>

\* the entered mapping fails them: the whole validation raises and everything
\* in progress is dropped
Reject ==
    /\ pc = "validating"
    /\ ~Top.checked
    /\ ~ShapeOk(Top.v)
    /\ fail_path' = Top.path
    /\ v_out' = ValidationError
    /\ stack' = <<>>
    /\ pc' = "raised"
    /\ UNCHANGED <<constructed, v_in, mainVars, genVars>>

\* enter the next children entry
Descend ==
    /\ pc = "validating"
    /\ Top.checked
    /\ Len(Top.built) < Len(GetItem(Top.v, K_children).xs)
    /\ LET n == Len(Top.built) + 1
       IN  stack' = Append(stack,
                           Frame(GetItem(Top.v, K_children).xs[n], Append(Top.path, n)))
    /\ UNCHANGED <<pc, constructed, fail_path, v_in, v_out, mainVars, genVars>>

\* every children entry is built: construct the Person and leave the mapping
Commit ==
    /\ pc = "validating"
    /\ Top.checked
    /\ Len(Top.built) = Len(GetItem(Top.v, K_children).xs)
    /\ LET p == Person(GetItem(Top.v, K_name).s, GetItem(Top.v, K_age).i, Top.built)
       IN  /\ constructed' = constructed \cup {[path |-> Top.path, person |-> p]}
           /\ IF Len(stack) = 1
              THEN /\ v_out' = p
                   /\ pc' = "returned"
                   /\ stack' = <<>>
              ELSE /\ stack' = [SubSeq(stack, 1, Len(stack) - 1)
                                    EXCEPT ![Len(stack) - 1].built = Append(@, p)]
                   /\ UNCHANGED <<pc, v_out>>
    /\ UNCHANGED <<fail_path, v_in, mainVars, genVars>>

StepNext ==
    \/ Accept
    \/ Reject
    \/ Descend
    \/ Commit

SpecStep == StepInit /\ [][StepNext]_vars

IsPrefix(a, b) == Len(a) <= Len(b) /\ SubSeq(b, 1, Len(a)) = a

\* C9: a Person is constructed only when each of its children has been
\* constructed before it; when a node is rejected, no Person has been
\* constructed for that node or for any ancestor of it, and the caller gets
\* the ValidationError alone; before the end the caller has nothing, and on
\* success it gets the complete tree.
BottomUpCommit ==
    /\ \A c \in constructed :
            \A n \in 1..Len(c.person.children) :
                [path |-> Append(c.path, n), person |-> c.person.children[n]]
                    \in constructed
    /\ pc = "validating" => v_out = Unset
    /\ pc = "raised" =>
            /\ v_out = ValidationError
            /\ Person_validate(v_in) = ValidationError
            /\ \A c \in constructed : ~IsPrefix(c.path, fail_path)
    /\ pc = "returned" => v_out.t = "Person" /\ v_out = Person_validate(v_in)

\* a grandchild is rejected after other nodes have been constructed
BottomUpCommitWitness ==
    /\ pc = "raised"
    /\ v_out = ValidationError
    /\ Len(fail_path) = 2
    /\ constructed # {}

====
